---- MODULE Spec2Model ----
(***************************************************************************)
(* Model of ebooks/oeb/transforms/cover.py: the series-index formatter     *)
(* (roman, fmt_sidx) and the CoverManager that splices a title page into   *)
(* a book's manifest, spine and guide.                                     *)
(*                                                                         *)
(* Python strings the formatter produces are sequences of one-character    *)
(* strings; a number is a decimal [m, e] standing for m / 10^e, where      *)
(* e = 0 is a Python int and e > 0 a float whose shortest decimal form     *)
(* has e places (3.0 is [30, 1], 2.5 is [25, 1]).                          *)
(***************************************************************************)
EXTENDS Integers, Sequences, FiniteSets, TLC

VARIABLES
    fcall,              \* the formatter call made last: function and arguments
    fres,               \* its outcome: the returned string or the exception
    cfg,                \* CoverManager: the constructor's four arguments
    svg_template,       \* CoverManager.svg_template
    non_svg_template,   \* CoverManager.non_svg_template
    oeb,                \* CoverManager.oeb: the book (guide, manifest, spine, metadata)
    pre,                \* the book as it was when the last call started
    ret,                \* the last insert_cover call: path taken, outcome, item, page
    calls               \* number of calls made on the instance

fvars == <<fcall, fres>>
cvars == <<cfg, svg_template, non_svg_template, oeb, pre, ret, calls>>
vars == <<fcall, fres, cfg, svg_template, non_svg_template, oeb, pre, ret, calls>>

(***************************************************************************)
(* Bounds                                                                  *)
(***************************************************************************)
MaxNum == 4001          \* roman is called with the integers -1 .. MaxNum
MaxStrLen == 3          \* longest string handed to fmt_sidx
MaxCalls == 3           \* calls made on one CoverManager instance

(***************************************************************************)
(* Numbers and their string forms                                          *)
(***************************************************************************)
RECURSIVE Pow10(_)
Pow10(e) == IF e = 0 THEN 1 ELSE 10 * Pow10(e - 1)

Abs(n) == IF n < 0 THEN -n ELSE n

Dec(m, e) == [m |-> m, e |-> e]

\* int(x): truncation towards zero
IntPart(x) == IF x.m < 0 THEN -(Abs(x.m) \div Pow10(x.e)) ELSE x.m \div Pow10(x.e)

\* int(x) == x
IsIntegral(x) == x.m % Pow10(x.e) = 0

DigitChar(d) == <<"0", "1", "2", "3", "4", "5", "6", "7", "8", "9">>[d + 1]

RECURSIVE NatStr(_)
NatStr(n) == IF n < 10 THEN <<DigitChar(n)>> ELSE NatStr(n \div 10) \o <<DigitChar(n % 10)>>

\* the digits of n, left-padded with zeros to k places
RECURSIVE PadDigits(_, _)
PadDigits(n, k) == IF k = 0 THEN <<>> ELSE PadDigits(n \div 10, k - 1) \o <<DigitChar(n % 10)>>

\* '%d' % n, and str(n) of an int
IntStr(n) == IF n < 0 THEN <<"-">> \o NatStr(-n) ELSE NatStr(n)

\* str(x): of an int its digits, of a float its shortest decimal form
PyStr(x) ==
    IF x.e = 0 THEN IntStr(x.m)
    ELSE (IF x.m < 0 THEN <<"-">> ELSE <<>>)
         \o NatStr(Abs(x.m) \div Pow10(x.e)) \o <<".">>
         \o PadDigits(Abs(x.m) % Pow10(x.e), x.e)

\* '%.2f' % x.  The digits dropped beyond the second place are rounded to
\* nearest; every input of the model with more than two places has a first
\* dropped digit below 5, where rounding is truncation.
Fmt2f(x) ==
    LET h == (Abs(x.m) * 100) \div Pow10(x.e)
    IN  (IF x.m < 0 THEN <<"-">> ELSE <<>>)
        \o NatStr(h \div 100) \o <<".">> \o PadDigits(h % 100, 2)

(***************************************************************************)
(* roman                                                                   *)
(***************************************************************************)
coding == <<
    [d |-> 1000, r |-> <<"M">>],      [d |-> 900, r |-> <<"C", "M">>],
    [d |-> 500,  r |-> <<"D">>],      [d |-> 400, r |-> <<"C", "D">>],
    [d |-> 100,  r |-> <<"C">>],      [d |-> 90,  r |-> <<"X", "C">>],
    [d |-> 50,   r |-> <<"L">>],      [d |-> 40,  r |-> <<"X", "L">>],
    [d |-> 10,   r |-> <<"X">>],      [d |-> 9,   r |-> <<"I", "X">>],
    [d |-> 5,    r |-> <<"V">>],      [d |-> 4,   r |-> <<"I", "V">>],
    [d |-> 1,    r |-> <<"I">>] >>

\* a loop that emits each symbol at most once: `if num >= d` for `while num >= d`
RECURSIVE RomanLoopOnce(_, _, _)
RomanLoopOnce(k, num, result) ==
    IF k > Len(coding) THEN result
    ELSE IF num >= coding[k].d
         THEN RomanLoopOnce(k + 1, num - coding[k].d, result \o coding[k].r)
         ELSE RomanLoopOnce(k + 1, num, result)

\* for d, r in coding: while num >= d: result.append(r); num -= d
RECURSIVE RomanLoop(_, _, _)
RomanLoop(k, num, result) ==
    IF k > Len(coding) THEN result
    ELSE IF num >= coding[k].d
         THEN RomanLoop(k, num - coding[k].d, result \o coding[k].r)
         ELSE RomanLoop(k + 1, num, result)

roman(num) ==
    IF num.m <= 0 \/ num.m >= 4000 * Pow10(num.e) \/ ~IsIntegral(num)
    THEN PyStr(num)
    ELSE RomanLoop(1, IntPart(num), <<>>)

(***************************************************************************)
(* fmt_sidx                                                                *)
(***************************************************************************)
\* The values fmt_sidx is given: None, a string, a number, or an object that
\* float() does not accept (s is then its str()).
ArgNone == [t |-> "None", s |-> <<>>, m |-> 0, e |-> 0]
ArgStr(s) == [t |-> "str", s |-> s, m |-> 0, e |-> 0]
ArgNum(m, e) == [t |-> "num", s |-> <<>>, m |-> m, e |-> e]
ArgObj(s) == [t |-> "obj", s |-> s, m |-> 0, e |-> 0]

Returned(s) == [raised |-> FALSE, exc |-> "", val |-> s]
Raised(x) == [raised |-> TRUE, exc |-> x, val |-> <<>>]

Digits == {"1", "2"}
DigitVal(c) == IF c = "1" THEN 1 ELSE 2

RECURSIVE DigitsVal(_)
DigitsVal(s) == IF s = <<>> THEN 0
                ELSE 10 * DigitsVal(SubSeq(s, 1, Len(s) - 1)) + DigitVal(s[Len(s)])

\* float(s) of a string: an optional sign, then digits with at most one
\* point and at least one digit; anything else is a ValueError.
ParseFloat(s) ==
    LET neg  == s # <<>> /\ s[1] = "-"
        body == IF neg THEN Tail(s) ELSE s
        dots == {i \in 1..Len(body) : body[i] = "."}
        digs == SelectSeq(body, LAMBDA c : c \in Digits)
        ok   == /\ \A i \in 1..Len(body) : body[i] \in Digits \cup {"."}
                /\ Cardinality(dots) <= 1
                /\ digs # <<>>
        e    == IF dots = {} THEN 0 ELSE Len(body) - (CHOOSE i \in dots : TRUE)
        a    == DigitsVal(digs)
    IN  IF ok THEN [ok |-> TRUE, m |-> IF neg THEN -a ELSE a, e |-> e]
        ELSE [ok |-> FALSE, m |-> 0, e |-> 0]

\* float(i): a number as it is, a string parsed, any other object a TypeError
Float(i) ==
    CASE i.t = "num" -> [exc |-> "", m |-> i.m, e |-> i.e]
      [] i.t = "str" -> LET p == ParseFloat(i.s)
                        IN  IF p.ok THEN [exc |-> "", m |-> p.m, e |-> p.e]
                            ELSE [exc |-> "ValueError", m |-> 0, e |-> 0]
      [] OTHER       -> [exc |-> "TypeError", m |-> 0, e |-> 0]

fmt_sidx(i0, use_roman) ==
    LET i == IF i0.t = "None" \/ (i0.t = "str" /\ i0.s = <<>>) THEN ArgNum(1, 0) ELSE i0
        f == Float(i)
    IN  IF f.exc = "TypeError" THEN Returned(i.s)
        ELSE IF f.exc # "" THEN Raised(f.exc)
        ELSE IF IsIntegral(f)
             THEN (IF use_roman THEN Returned(roman(Dec(IntPart(f), 0)))
                   ELSE Returned(IntStr(IntPart(f))))
        ELSE Returned(Fmt2f(f))

(***************************************************************************)
(* The book: guide, manifest, spine and metadata (ebooks/oeb/base.py)      *)
(***************************************************************************)
\* An optional value: None is the empty sequence, a value v is <<v>>.
None == <<>>
Some(v) == <<v>>

Raw == [kind |-> "raw"]
XhtmlType == "application/xhtml+xml"

Ch1Item == [id |-> "ch1", href |-> "ch1.xhtml", media_type |-> XhtmlType, data |-> Raw]
ImgItem == [id |-> "cover", href |-> "cover.jpg", media_type |-> "image/jpeg", data |-> Raw]
TpItem  == [id |-> "titlepage", href |-> "titlepage.xhtml", media_type |-> XhtmlType, data |-> Raw]

Reference(type, title, href) == [type |-> type, title |-> title, href |-> href]

\* Manifest.ids and Manifest.hrefs: the items by id and by href
Ids(m) == {x.id : x \in m}
Hrefs(m) == {x.href : x \in m}
ItemByHref(m, h) == CHOOSE x \in m : x.href = h

\* urldefrag(href)[0]: the href without its fragment
Urldefrag(href) == IF href = "titlepage.xhtml#top" THEN "titlepage.xhtml" ELSE href

\* unquote(href): percent-escapes decoded
Unquote(href) == IF href = "my%20cover.jpg" THEN "my cover.jpg" ELSE href

\* Manifest.generate('titlepage', 'titlepage.xhtml'): the first id and the
\* first href of the series titlepage, titlepage1, ... that the manifest
\* does not hold yet
TitlepageIds == <<"titlepage", "titlepage1", "titlepage2", "titlepage3",
                  "titlepage4", "titlepage5", "titlepage6">>
TitlepageHrefs == <<"titlepage.xhtml", "titlepage1.xhtml", "titlepage2.xhtml",
                    "titlepage3.xhtml", "titlepage4.xhtml", "titlepage5.xhtml",
                    "titlepage6.xhtml">>
FirstFree(names, used) ==
    names[CHOOSE k \in 1..Len(names) :
            /\ names[k] \notin used
            /\ \A j \in 1..(k - 1) : names[j] \in used]
Generate(m) == [id |-> FirstFree(TitlepageIds, Ids(m)),
                href |-> FirstFree(TitlepageHrefs, Hrefs(m))]

\* Manifest.add(id, href, media_type, data)
ManifestAdd(m, item) == m \cup {item}

\* Spine.insert(index, item, linear), index counted from 0
SpineInsert(spine, index, item, linear) ==
    SubSeq(spine, 1, index) \o <<[id |-> item.id, linear |-> linear]>>
    \o SubSeq(spine, index + 1, Len(spine))

\* Guide.add(type, title, href)
GuideAdd(g, type, title, href) ==
    [t \in DOMAIN g \cup {type} |-> IF t = type THEN Reference(type, title, href) ELSE g[t]]

\* refs[type].href = href
SetHref(g, type, href) == [g EXCEPT ![type].href = href]

(***************************************************************************)
(* CoverManager                                                            *)
(***************************************************************************)
SVG_TEMPLATE ==
    [kind |-> "svg", svg_width |-> "100%%", svg_height |-> "100%%",
     viewBox |-> <<"__viewbox__">>, preserveAspectRatio |-> "__ar__",
     width |-> "__width__", height |-> "__height__", href |-> "%s"]

\* the style attribute is the sequence of its (property, value) pairs
NONSVG_TEMPLATE ==
    [kind |-> "img", src |-> "%s", style |-> <<"__style__">>]

\* str.replace(old, new) on the attribute that holds the placeholder
Replace(v, old, new) == IF v = old THEN new ELSE v

\* `templ % arg` on one attribute: %s is the argument, %% a percent sign
Pct(v, arg) == IF v = "%s" THEN arg ELSE IF v = "100%%" THEN "100%" ELSE v

\* templ % arg
Format(templ, arg) ==
    IF templ.kind = "svg"
    THEN [kind |-> "svg",
          svg_width |-> Pct(templ.svg_width, arg), svg_height |-> Pct(templ.svg_height, arg),
          viewBox |-> templ.viewBox, preserveAspectRatio |-> templ.preserveAspectRatio,
          width |-> templ.width, height |-> templ.height, href |-> Pct(templ.href, arg)]
    ELSE [kind |-> "img", src |-> Pct(templ.src, arg),
          style |-> [k \in DOMAIN templ.style |->
                       IF Len(templ.style[k]) = 2
                       THEN <<templ.style[k][1], Pct(templ.style[k][2], arg)>>
                       ELSE templ.style[k]]]

\* __init__: ar = 'xMidYMid meet' if preserve_aspect_ratio else 'none'
InitSvgTemplate(c) ==
    [SVG_TEMPLATE EXCEPT !.preserveAspectRatio =
        Replace(@, "__ar__", IF c.preserve_aspect_ratio THEN "xMidYMid meet" ELSE "none")]

\* __init__: width, height = fixed_size;
\*           style = 'style="height: %s; width: %s"'%(width, height)
Style(fixed_size) ==
    IF fixed_size = None
    THEN << <<"height", "100%%">> >>
    ELSE << <<"height", ToString(fixed_size[1])>>, <<"width", ToString(fixed_size[2])>> >>

InitNonSvgTemplate(c) ==
    [NONSVG_TEMPLATE EXCEPT !.style =
        IF @ = <<"__style__">> THEN Style(c.fixed_size) ELSE @]

\* default_cover: no cover is ever synthesised; the metadata is read first
\* unless synthesis is suppressed
default_cover(c, b) ==
    IF c.no_default_cover THEN [exc |-> "", href |-> None]
    ELSE IF b.metadata.title = <<>> THEN [exc |-> "IndexError", href |-> None]
    ELSE IF b.metadata.series # <<>> /\ b.metadata.series_index # <<>>
            /\ fmt_sidx(b.metadata.series_index[1], TRUE).raised
         THEN [exc |-> fmt_sidx(b.metadata.series_index[1], TRUE).exc, href |-> None]
    ELSE [exc |-> "", href |-> None]

\* inspect_cover: return None, None
inspect_cover(b, href) == [width |-> None, height |-> None]

\* a fallback with the two numbers the other way round
DimsSwapped(wh) ==
    IF wh.width = None \/ wh.height = None
    THEN [width |-> 800, height |-> 600]
    ELSE [width |-> wh.width[1], height |-> wh.height[1]]

\* if width is None or height is None: width, height = 600, 800
Dims(wh) ==
    IF wh.width = None \/ wh.height = None
    THEN [width |-> 600, height |-> 800]
    ELSE [width |-> wh.width[1], height |-> wh.height[1]]

\* self.svg_template = self.svg_template.replace(...), three times
FillDims(templ, d) ==
    [templ EXCEPT
       !.viewBox = Replace(@, <<"__viewbox__">>,
                           <<"0", "0", ToString(d.width), ToString(d.height)>>),
       !.width   = Replace(@, "__width__", ToString(d.width)),
       !.height  = Replace(@, "__height__", ToString(d.height))]

\* a rewiring that appends the item to the spine
RewireAppend(b, item) ==
    LET g1 == IF "cover" \notin DOMAIN b.guide
              THEN GuideAdd(b.guide, "cover", "Title Page", "a") ELSE b.guide
        g2 == SetHref(g1, "cover", item.href)
        g3 == IF "titlepage" \in DOMAIN g2 THEN SetHref(g2, "titlepage", item.href) ELSE g2
    IN  [b EXCEPT !.spine = SpineInsert(@, Len(@), item, TRUE), !.guide = g3]

\* the tail of insert_cover, taken when item is not None
Rewire(b, item) ==
    LET g1 == IF "cover" \notin DOMAIN b.guide
              THEN GuideAdd(b.guide, "cover", "Title Page", "a") ELSE b.guide
        g2 == SetHref(g1, "cover", item.href)
        g3 == IF "titlepage" \in DOMAIN g2 THEN SetHref(g2, "titlepage", item.href) ELSE g2
    IN  [b EXCEPT !.spine = SpineInsert(@, 0, item, TRUE), !.guide = g3]

NoItem == [id |-> "", href |-> "", media_type |-> "", data |-> Raw]
NoPage == [kind |-> ""]
NoGuide == [t \in {} |-> Reference(t, "", "")]
NoBook == [guide |-> NoGuide, manifest |-> {}, spine |-> <<>>,
           metadata |-> [title |-> <<>>, series |-> <<>>, series_index |-> <<>>]]
NoRet == [status |-> "none", exc |-> "", path |-> "", item |-> NoItem, tp |-> NoPage]

Outcome(book, templ, status, exc, path, item, tp) ==
    [oeb |-> book, svg_template |-> templ,
     ret |-> [status |-> status, exc |-> exc, path |-> path, item |-> item, tp |-> tp]]

\* a page for the branch that reuses an existing titlepage: the manifest
\* gets a new item all the same
ExistingTitlepageAdds(c, templ, nonsvg, b) ==
    LET key  == Urldefrag(b.guide["titlepage"].href)
        gen  == Generate(b.manifest)
        item == [id |-> gen.id, href |-> gen.href, media_type |-> XhtmlType, data |-> Raw]
    IN  IF key \notin Hrefs(b.manifest)
        THEN Outcome(b, templ, "raised", "KeyError", "existing", NoItem, NoPage)
        ELSE Outcome(Rewire([b EXCEPT !.manifest = ManifestAdd(@, item)],
                            ItemByHref(b.manifest, key)),
                     templ, "returned", "", "existing", ItemByHref(b.manifest, key), NoPage)

\* insert_cover, else branch: item = self.oeb.manifest.hrefs[urldefrag(...)[0]]
ExistingTitlepage(c, templ, nonsvg, b) ==
    LET key == Urldefrag(b.guide["titlepage"].href)
    IN  IF key \notin Hrefs(b.manifest)
        THEN Outcome(b, templ, "raised", "KeyError", "existing", NoItem, NoPage)
        ELSE Outcome(Rewire(b, ItemByHref(b.manifest, key)), templ,
                     "returned", "", "existing", ItemByHref(b.manifest, key), NoPage)

\* a no-op return that has already filled the template and touched the guide
NoCoverTouches(c, templ, nonsvg, b) ==
    Outcome([b EXCEPT !.guide = GuideAdd(@, "cover", "Title Page", "a")],
            templ, "returned", "", "noop", NoItem, NoPage)

\* insert_cover: if href is None: return
NoCover(c, templ, nonsvg, b) ==
    Outcome(b, templ, "returned", "", "noop", NoItem, NoPage)

\* insert_cover, from inspect_cover to m.add, then the rewiring
NewTitlepage(c, templ, nonsvg, b, href) ==
    LET d      == Dims(inspect_cover(b, href))
        filled == FillDims(templ, d)
        chosen == IF c.no_svg_cover THEN nonsvg ELSE filled
        tp     == Format(chosen, Unquote(href))
        gen    == Generate(b.manifest)
        item   == [id |-> gen.id, href |-> gen.href, media_type |-> XhtmlType, data |-> tp]
    IN  Outcome(Rewire([b EXCEPT !.manifest = ManifestAdd(@, item)], item),
                filled, "returned", "", "generated", item, tp)

\* insert_cover: what one call makes of the book b and the vector template
insert_cover(c, templ, nonsvg, b) ==
    IF "titlepage" \notin DOMAIN b.guide
    THEN LET dc == IF "cover" \in DOMAIN b.guide
                   THEN [exc |-> "", href |-> Some(b.guide["cover"].href)]
                   ELSE default_cover(c, b)
         IN  IF dc.exc # ""
             THEN Outcome(b, templ, "raised", dc.exc, "noop", NoItem, NoPage)
             ELSE IF dc.href = None THEN NoCover(c, templ, nonsvg, b)
             ELSE NewTitlepage(c, templ, nonsvg, b, dc.href[1])
    ELSE ExistingTitlepage(c, templ, nonsvg, b)

(***************************************************************************)
(* The formatter on its own: each step is one call of roman or fmt_sidx.   *)
(***************************************************************************)
Alphabet == {"1", "2", ".", "-", "a"}

Strs(n) == UNION {[1..k -> Alphabet] : k \in 0..n}

RomanInputs == {Dec(m, 0) : m \in -1..MaxNum} \cup {Dec(25, 1), Dec(30, 1), Dec(125, 2)}

FmtInputs ==
    {ArgNone} \cup {ArgStr(s) : s \in Strs(MaxStrLen)}
    \cup {ArgNum(m, 0) : m \in -1..12} \cup {ArgNum(25, 1), ArgNum(30, 1), ArgNum(125, 2)}
    \cup {ArgObj(<<"a">>)}

NoCall == [fn |-> "", arg |-> ArgNone, use_roman |-> FALSE]
Pending == [raised |-> FALSE, exc |-> "pending", val |-> <<>>]

FmtCalls ==
    {[fn |-> "roman", arg |-> ArgNum(n.m, n.e), use_roman |-> FALSE] : n \in RomanInputs}
    \cup {[fn |-> "fmt_sidx", arg |-> i, use_roman |-> r] : i \in FmtInputs, r \in BOOLEAN}

\* roman(num)
CallRoman ==
    /\ fcall.fn = "roman"
    /\ fres = Pending
    /\ fres' = Returned(roman(Dec(fcall.arg.m, fcall.arg.e)))
    /\ UNCHANGED <<fcall, cvars>>

\* fmt_sidx(i, use_roman=...), fmt left at its default '%.2f'
CallFmtSidx ==
    /\ fcall.fn = "fmt_sidx"
    /\ fres = Pending
    /\ fres' = fmt_sidx(fcall.arg, fcall.use_roman)
    /\ UNCHANGED <<fcall, cvars>>

(***************************************************************************)
(* The books handed to the CoverManager and its configurations             *)
(***************************************************************************)
PlainMeta == [title |-> <<"T">>, series |-> <<>>, series_index |-> <<>>]

\* the metadata is read only when the guide names neither cover nor titlepage
Metas ==
    { PlainMeta,
      [title |-> <<>>, series |-> <<>>, series_index |-> <<>>],
      [title |-> <<"T">>, series |-> <<"S">>, series_index |-> <<ArgNum(2, 0)>>],
      [title |-> <<"T">>, series |-> <<"S">>, series_index |-> <<ArgStr(<<"a">>)>>],
      [title |-> <<"T">>, series |-> <<"S">>, series_index |-> <<ArgObj(<<"2">>)>>] }

SpineOf(ids) == [k \in DOMAIN ids |-> [id |-> ids[k], linear |-> TRUE]]

ManifestsAndSpines ==
    { [manifest |-> {Ch1Item}, spine |-> SpineOf(<<"ch1">>)],
      [manifest |-> {Ch1Item, ImgItem}, spine |-> SpineOf(<<"ch1">>)],
      [manifest |-> {Ch1Item, ImgItem, TpItem}, spine |-> SpineOf(<<"ch1", "titlepage">>)] }

CoverRefs == {None, Some("cover.jpg"), Some("my%20cover.jpg")}
TitlepageRefs == {None, Some("titlepage.xhtml"), Some("titlepage.xhtml#top"), Some("gone.xhtml")}

GuideOf(c, t) ==
    [k \in (IF c = None THEN {} ELSE {"cover"}) \cup (IF t = None THEN {} ELSE {"titlepage"}) |->
        IF k = "cover" THEN Reference("cover", "Cover", c[1])
        ELSE Reference("titlepage", "Title Page", t[1])]

Books ==
    { [guide |-> GuideOf(c, t), manifest |-> ms.manifest, spine |-> ms.spine,
       metadata |-> PlainMeta] :
        c \in CoverRefs, t \in TitlepageRefs, ms \in ManifestsAndSpines }
    \cup
    { [guide |-> NoGuide, manifest |-> ms.manifest, spine |-> ms.spine, metadata |-> md] :
        ms \in ManifestsAndSpines, md \in Metas }

FixedSizes == {None, <<600, 800>>}

Configs ==
    [no_default_cover : BOOLEAN, no_svg_cover : BOOLEAN,
     preserve_aspect_ratio : BOOLEAN, fixed_size : FixedSizes]

DefaultConfig ==
    [no_default_cover |-> FALSE, no_svg_cover |-> FALSE,
     preserve_aspect_ratio |-> FALSE, fixed_size |-> None]

NoPre == [oeb |-> NoBook, svg_template |-> SVG_TEMPLATE]

\* the instance right after __init__
Constructed(c) ==
    /\ cfg = c
    /\ svg_template = InitSvgTemplate(c)
    /\ non_svg_template = InitNonSvgTemplate(c)
    /\ oeb = NoBook
    /\ pre = NoPre
    /\ ret = NoRet
    /\ calls = 0

Init ==
    /\ \E c \in Configs : Constructed(c)
    /\ fcall = NoCall
    /\ fres = Returned(<<>>)

\* one run of insert_cover on the book b
Run(b) ==
    LET o == insert_cover(cfg, svg_template, non_svg_template, b)
    IN  /\ pre' = [oeb |-> b, svg_template |-> svg_template]
        /\ oeb' = o.oeb
        /\ svg_template' = o.svg_template
        /\ ret' = o.ret
        /\ UNCHANGED <<cfg, non_svg_template, fcall, fres>>

\* __call__(oeb): self.oeb = oeb; self.insert_cover()
Call ==
    \E b \in Books :
        /\ Run(b)
        /\ calls' = 1

\* insert_cover() once more on the book the instance holds
InsertCoverAgain ==
    /\ calls >= 1
    /\ calls < MaxCalls
    /\ Run(oeb)
    /\ calls' = calls + 1

Next == Call \/ InsertCoverAgain

Spec == Init /\ [][Next]_vars

InitFmt ==
    /\ Constructed(DefaultConfig)
    /\ fcall \in FmtCalls
    /\ fres = Pending

NextFmt == CallRoman \/ CallFmtSidx

SpecFmt == InitFmt /\ [][NextFmt]_vars

(***************************************************************************)
(* Properties of the formatter (checked under SpecFmt)                     *)
(***************************************************************************)
RomanValue(c) ==
    CASE c = "M" -> 1000 [] c = "D" -> 500 [] c = "C" -> 100 [] c = "L" -> 50
      [] c = "X" -> 10   [] c = "V" -> 5   [] c = "I" -> 1   [] OTHER -> 0

\* the standard parser: a symbol smaller than its successor is subtracted
RECURSIVE RomanToInt(_)
RomanToInt(s) ==
    IF s = <<>> THEN 0
    ELSE IF Len(s) >= 2 /\ RomanValue(s[1]) < RomanValue(s[2])
         THEN RomanToInt(Tail(s)) - RomanValue(s[1])
         ELSE RomanToInt(Tail(s)) + RomanValue(s[1])

\* the greedy decomposition: take the largest tabulated value <= n, emit
\* its symbol, subtract, until nothing remains
RECURSIVE Greedy(_)
Greedy(n) ==
    IF n = 0 THEN <<>>
    ELSE LET k == CHOOSE j \in 1..Len(coding) :
                    /\ coding[j].d <= n
                    /\ \A i \in 1..Len(coding) : coding[i].d <= n => coding[i].d <= coding[j].d
         IN  coding[k].r \o Greedy(n - coding[k].d)

\* C7: for every integer n with 1 <= n <= 3999, roman(n) is the greedy
\* subtractive-pair decomposition of n over the table M .. I, and the
\* standard Roman-to-integer parser reads n back from it.
RomanRoundTrip ==
    (/\ fcall.fn = "roman" /\ fres # Pending
     /\ fcall.arg.e = 0 /\ fcall.arg.m \in 1..3999)
    => /\ ~fres.raised
       /\ fres.val = Greedy(fcall.arg.m)
       /\ RomanToInt(fres.val) = fcall.arg.m

RomanRoundTripWitness ==
    /\ fcall.fn = "roman" /\ fcall.arg = ArgNum(1994, 0)
    /\ fres = Returned(<<"M", "C", "M", "X", "C", "I", "V">>)

\* C8: fmt_sidx given a non-empty string that float() cannot convert returns
\* that string unchanged and does not raise; given None or the empty string
\* it gives what it gives for 1.
FmtSidxLenient ==
    (fcall.fn = "fmt_sidx" /\ fres # Pending)
    => /\ (fcall.arg.t = "str" /\ fcall.arg.s # <<>> /\ ~ParseFloat(fcall.arg.s).ok)
            => fres = Returned(fcall.arg.s)
       /\ (fcall.arg.t = "None" \/ (fcall.arg.t = "str" /\ fcall.arg.s = <<>>))
            => fres = Returned(IF fcall.use_roman THEN <<"I">> ELSE <<"1">>)

(***************************************************************************)
(* Properties of insert_cover (checked under Spec)                         *)
(***************************************************************************)
\* C1: after a call that produced a titlepage item or found the existing
\* one, the spine's first entry is that item, guide['cover'] exists with the
\* item's href, and guide['titlepage'], if it exists, has the item's href.
TitlepageFirstAndReferenced ==
    (ret.status = "returned" /\ ret.path \in {"generated", "existing"})
    => /\ oeb.spine # <<>>
       /\ oeb.spine[1].id = ret.item.id
       /\ ret.item \in oeb.manifest
       /\ "cover" \in DOMAIN oeb.guide
       /\ oeb.guide["cover"].href = ret.item.href
       /\ "titlepage" \in DOMAIN oeb.guide => oeb.guide["titlepage"].href = ret.item.href

TitlepageFirstAndReferencedWitness ==
    /\ ret.status = "returned" /\ ret.path = "existing"
    /\ "cover" \notin DOMAIN pre.oeb.guide
    /\ pre.oeb.guide["titlepage"].href = "titlepage.xhtml#top"
    /\ pre.oeb.spine[1].id = "ch1"
    /\ oeb.spine[1].id = "titlepage"
    /\ oeb.guide["cover"].href = "titlepage.xhtml"

\* C3: for a book whose guide already has a 'titlepage' reference, the call
\* generates no page from a template and leaves the manifest as it was, and
\* afterwards the spine's first entry is the manifest item the reference
\* points to.
ExistingTitlepageReused ==
    (ret.status # "none" /\ "titlepage" \in DOMAIN pre.oeb.guide)
    => /\ oeb.manifest = pre.oeb.manifest
       /\ ret.tp = NoPage
       /\ svg_template = pre.svg_template
       /\ Urldefrag(pre.oeb.guide["titlepage"].href) \in Hrefs(pre.oeb.manifest)
            => /\ oeb.spine # <<>>
               /\ oeb.spine[1].id =
                    ItemByHref(pre.oeb.manifest, Urldefrag(pre.oeb.guide["titlepage"].href)).id

ExistingTitlepageReusedWitness ==
    /\ ret.status = "returned" /\ ret.path = "existing"
    /\ "cover" \in DOMAIN pre.oeb.guide
    /\ pre.oeb.guide["titlepage"].href = "titlepage.xhtml"
    /\ pre.oeb.spine[1].id = "ch1"
    /\ oeb.spine[1].id = "titlepage"
    /\ oeb.manifest = {Ch1Item, ImgItem, TpItem}

\* C4: for a book whose guide has neither 'cover' nor 'titlepage', with
\* default-cover generation suppressed or yielding no cover, the call leaves
\* manifest, spine and guide (the whole book) as they were.
NoCoverLeavesBook ==
    (/\ ret.status # "none"
     /\ "cover" \notin DOMAIN pre.oeb.guide
     /\ "titlepage" \notin DOMAIN pre.oeb.guide)
    => /\ oeb.manifest = pre.oeb.manifest
       /\ oeb.spine = pre.oeb.spine
       /\ oeb.guide = pre.oeb.guide
       /\ oeb = pre.oeb

NoCoverLeavesBookWitness ==
    /\ ret.status = "returned" /\ ret.path = "noop"
    /\ cfg.no_default_cover
    /\ pre.oeb.guide = NoGuide
    /\ pre.oeb.manifest = {Ch1Item, ImgItem}

\* C5: when a cover reference was obtained and inspection gives no width or
\* no height, the call does not abort: it registers the titlepage, and a
\* vector-wrapped page has viewBox "0 0 600 800", image width 600, height 800.
FallbackDimensions ==
    (/\ ret.status # "none"
     /\ "titlepage" \notin DOMAIN pre.oeb.guide
     /\ "cover" \in DOMAIN pre.oeb.guide
     /\ \/ inspect_cover(pre.oeb, pre.oeb.guide["cover"].href).width = None
        \/ inspect_cover(pre.oeb, pre.oeb.guide["cover"].href).height = None)
    => /\ ret.status = "returned"
       /\ ret.path = "generated"
       /\ ret.item \in oeb.manifest
       /\ ret.item \notin pre.oeb.manifest
       /\ ret.item.data = ret.tp
       /\ ret.tp.kind = "svg"
            => /\ ret.tp.viewBox = <<"0", "0", "600", "800">>
               /\ ret.tp.width = "600"
               /\ ret.tp.height = "800"

FallbackDimensionsWitness ==
    /\ ret.status = "returned" /\ ret.path = "generated"
    /\ pre.svg_template.viewBox # <<"__viewbox__">>
    /\ pre.oeb.guide["cover"].href = "my%20cover.jpg"
    /\ ret.tp.kind = "svg"
    /\ ret.tp.viewBox = <<"0", "0", "600", "800">>
    /\ ret.tp.href = "my cover.jpg"
    /\ ret.item.id = "titlepage1"

\* C6: insert_cover never raises an error to its caller, whatever the book.
NeverRaises == ret.status # "raised"

\* C9: over any sequence of calls the two templates stay as they were right
\* after construction; the vector template keeps its viewbox, width and
\* height placeholders open.
TemplatesStayAsConstructed ==
    /\ svg_template = InitSvgTemplate(cfg)
    /\ non_svg_template = InitNonSvgTemplate(cfg)
    /\ svg_template.viewBox = <<"__viewbox__">>
    /\ svg_template.width = "__width__"
    /\ svg_template.height = "__height__"

\* C10: with fixed_size = (width, height) and vector wrapping suppressed the
\* image tag of the generated page is styled with width = the configured
\* width and height = the configured height; with no fixed_size, height 100%.
FixedSizeStyle ==
    (ret.status = "returned" /\ ret.path = "generated" /\ cfg.no_svg_cover)
    => /\ ret.tp.kind = "img"
       /\ cfg.fixed_size # None
            => /\ \E k \in DOMAIN ret.tp.style :
                    ret.tp.style[k] = <<"width", ToString(cfg.fixed_size[1])>>
               /\ \E k \in DOMAIN ret.tp.style :
                    ret.tp.style[k] = <<"height", ToString(cfg.fixed_size[2])>>
       /\ cfg.fixed_size = None
            => ret.tp.style = << <<"height", "100%">> >>

====
